---- MODULE Spec2Model ----
(***************************************************************************)
(* A model of overcooked_gridworld/agents/benchmarking.py: the             *)
(* AgentEvaluator class.  One evaluator instance is modelled: its lazily   *)
(* filled slots _mdp/_env/_mlp, the pairing constructors, the replay       *)
(* validator check_trajectories/check_trajectory, save_trajectory and      *)
(* load_trajectory, and the exporters.                                     *)
(*                                                                         *)
(* Collaborators that live outside benchmarking.py (the world model's      *)
(* transition function, OvercookedEnv.get_rollouts, the planner factory    *)
(* MediumLevelPlanner.from_pickle_or_compute, state equality) are modelled *)
(* from their description in the specification.                            *)
(***************************************************************************)
EXTENDS Integers, Sequences, FiniteSets, TLC

\* ------------------------------------------------------------------ bounds
MaxCalls == 3      \* top-level calls made on the evaluator in one behaviour
MaxRuns == 2       \* validations, saves and loads run in one behaviour
MaxEps == 2        \* num_games of a rollout
MaxLen == 2        \* horizon of the environment (steps per episode)
ExpEps == 2        \* episodes of an exporter's input
ExpLen == 2        \* steps per episode of an exporter's input

\* --------------------------------------------------------------- constants
None == 0          \* Python's None in a slot that otherwise holds an object id

\* Object kinds of the two agent classes paired by the constructors.
GreedyHumanModel == "GreedyHumanModel"
CoupledPlanningAgent == "CoupledPlanningAgent"
RandomAgent == "RandomAgent"
NoPair == <<"-", "-">>

\* curr_state.order_list = ["onion"] * 3
ORDER_REF == <<"onion", "onion", "onion">>
\* order_goal=['any'] * 100, shortened: only its difference from ORDER_REF counts
ORDER_ANY == <<"any", "any", "any", "any">>

\* Action.INTERACT and the other Action tokens, as they appear in ep_actions
INTERACT == "interact"
MOVE == "move"
UNDEF == "None"    \* an undefined (None) action of one agent

VARIABLES
  _mdp, _env, _mlp,   \* the three slots of the instance (None or an object id)
  force_compute,      \* self.force_compute
  cache,              \* the on-disk entry <layout>_am.pkl: None or a planner id
  nextId,             \* next fresh object id
  built,              \* construction events, in order ("mdp", "env", "mlp")
  planner,            \* [accesses, computes, writes, loads] of the planner
  returned,           \* per accessor, the set of objects it has returned
  call,               \* outcome of the last evaluate_* call
  calls,              \* number of top-level calls so far
  start_state,        \* the environment's fixed start state
  horizon,            \* self.horizon
  bundle,             \* the trajectory dict the caller holds / being validated
  bundle0,            \* its value when the running operation was entered
  file,               \* the pickle written by save_trajectory (or found on disk)
  file0,              \* its value when the running operation was entered
  edited,             \* whether the caller has altered the bundle by hand
  op, pc, idx, t,     \* running operation, its position, episode and step index
  sim,                \* simulation_env.state
  cmp,                \* operands of the last state comparison
  raised,             \* exception raised by the last operation ("" if none)
  result,             \* what the last operation returned to its caller
  runs,               \* operations run on trajectories so far
  xin, xout           \* an exporter's input bundle and its output

pvars == <<_mdp, _env, _mlp, force_compute, cache, nextId, built, planner,
           returned, call, calls>>
tvars == <<start_state, horizon, bundle, bundle0, file, file0, edited, op, pc,
           idx, t, sim, cmp, raised, result, runs>>
xvars == <<xin, xout>>
vars == <<pvars, tvars, xvars>>

\* ------------------------------------------------------- ResourceProvider
\* The instance as a record, so that a handler's accesses compose.
Instance ==
  [_mdp |-> _mdp, _env |-> _env, _mlp |-> _mlp, force_compute |-> force_compute,
   cache |-> cache, nextId |-> nextId, built |-> built, planner |-> planner,
   returned |-> returned, call |-> call, obj |-> None]

NoCall == [name |-> "-", seat |-> 0, pair |-> NoPair, env_ref |-> FALSE,
           bound |-> FALSE, rolled |-> FALSE, err |-> ""]

\* @property mdp, without the "is None" test
mdp_no_memo(P) ==
  LET Q == [P EXCEPT !._mdp = P.nextId, !.nextId = @ + 1,
                     !.built = Append(@, "mdp")]
  IN  [Q EXCEPT !.returned.mdp = @ \cup {Q._mdp}, !.obj = Q._mdp]

\* @property mdp
mdp(P) ==
  LET Q == IF P._mdp = None
           THEN [P EXCEPT !._mdp = P.nextId, !.nextId = @ + 1,
                          !.built = Append(@, "mdp")]
           ELSE P
  IN  [Q EXCEPT !.returned.mdp = @ \cup {Q._mdp}, !.obj = Q._mdp]

\* @property env: OvercookedEnv(self.mdp, ...) evaluates self.mdp first
env(P) ==
  LET Q == IF P._env = None
           THEN LET M == mdp(P)
                IN  [M EXCEPT !._env = M.nextId, !.nextId = @ + 1,
                              !.built = Append(@, "env")]
           ELSE P
  IN  [Q EXCEPT !.returned.env = @ \cup {Q._env}, !.obj = Q._env]

\* MediumLevelPlanner.from_pickle_or_compute(filename, mdp, params, force_compute)
from_pickle_or_compute(P, force) ==
  IF P.cache # None /\ ~force
  THEN [P EXCEPT !.obj = P.nextId, !.nextId = @ + 1, !.planner.loads = @ + 1]
  ELSE [P EXCEPT !.obj = P.nextId, !.nextId = @ + 1, !.cache = P.nextId,
                 !.planner.computes = @ + 1, !.planner.writes = @ + 1]

\* @property mlp, without the "is None" test
mlp_no_memo(P) ==
  LET F == from_pickle_or_compute(mdp(P), P.force_compute)
      Q == [F EXCEPT !._mlp = F.obj, !.built = Append(@, "mlp")]
  IN  [Q EXCEPT !.returned.mlp = @ \cup {Q._mlp}, !.obj = Q._mlp,
                !.planner.accesses = @ + 1]

\* @property mlp
mlp(P) ==
  LET Q == IF P._mlp = None
           THEN LET F == from_pickle_or_compute(mdp(P), P.force_compute)
                IN  [F EXCEPT !._mlp = F.obj, !.built = Append(@, "mlp")]
           ELSE P
  IN  [Q EXCEPT !.returned.mlp = @ \cup {Q._mlp}, !.obj = Q._mlp,
                !.planner.accesses = @ + 1]

\* --------------------------------------------------- world model, rollouts
\* An OvercookedState, reduced to what the validator compares: pos = 1 when a
\* soup stands ready at the serving location, and the pending-order queue.
StartStates == {[pos |-> 1, order_list |-> o] : o \in {ORDER_REF, ORDER_ANY}}

\* Joint actions the agent pair is taken to choose from.
RolloutActions == {<<MOVE, MOVE>>, <<INTERACT, MOVE>>}

\* The transition function: an interact at the serving location delivers the
\* soup (reward 20) and pops the served order; a move toggles pos.
MdpStep(s, a) ==
  IF INTERACT \in {a[1], a[2]}
  THEN IF s.pos = 1 /\ s.order_list # <<>>
       THEN [state |-> [pos |-> 0, order_list |-> Tail(s.order_list)], reward |-> 20]
       ELSE [state |-> s, reward |-> 0]
  ELSE [state |-> [s EXCEPT !.pos = 1 - @], reward |-> 0]

\* OvercookedState.__eq__: structural, the order queue included
StateEq(a, b) == a.pos = b.pos /\ a.order_list = b.order_list

RECURSIVE EpStates(_, _)
EpStates(s, as) ==
  IF as = <<>> THEN <<>>
  ELSE <<s>> \o EpStates(MdpStep(s, Head(as)).state, Tail(as))

RECURSIVE EpRewards(_, _)
EpRewards(s, as) ==
  IF as = <<>> THEN <<>>
  ELSE <<MdpStep(s, Head(as)).reward>> \o EpRewards(MdpStep(s, Head(as)).state, Tail(as))

RECURSIVE SumSeq(_)
SumSeq(q) == IF q = <<>> THEN 0 ELSE Head(q) + SumSeq(Tail(q))

StandardKeys ==
  {"ep_actions", "ep_observations", "ep_rewards", "ep_dones", "ep_returns", "ep_lengths"}

NoBundle ==
  [keys |-> {}, ep_actions |-> <<>>, ep_observations |-> <<>>, ep_rewards |-> <<>>,
   ep_dones |-> <<>>, ep_returns |-> <<>>, ep_lengths |-> <<>>]

\* OvercookedEnv.get_rollouts(agent_pair, num_games): acts[e] are the joint
\* actions the pair chose in game e; every game starts from the fixed start
\* state and runs to the horizon.
get_rollouts(start, acts) ==
  LET E == 1..Len(acts) IN
  [keys |-> StandardKeys,
   ep_actions |-> acts,
   ep_observations |-> [e \in E |-> EpStates(start, acts[e])],
   ep_rewards |-> [e \in E |-> EpRewards(start, acts[e])],
   ep_dones |-> [e \in E |-> [k \in 1..Len(acts[e]) |-> k = Len(acts[e])]],
   ep_returns |-> [e \in E |-> SumSeq(EpRewards(start, acts[e]))],
   ep_lengths |-> [e \in E |-> Len(acts[e])]]

\* The action choices of num_games games of h steps each.
ActChoices(num_games, h) == [1..num_games -> [1..h -> RolloutActions]]

\* ------------------------------------------------- AgentPairingStrategy
\* evaluate_agent_pair: agent_pair.set_mdp(self.mdp); self.env.get_rollouts(...)
evaluate_agent_pair(P) ==
  LET M == mdp(P)
      E == env(M)
  IN  [E EXCEPT !.call.bound = TRUE, !.call.rolled = TRUE]

evaluate_human_model_pair(P) ==
  LET A == mlp(P)
      B == mlp(A)
  IN  evaluate_agent_pair(
        [B EXCEPT !.call = [NoCall EXCEPT !.name = "human_model_pair",
                                          !.pair = <<GreedyHumanModel, GreedyHumanModel>>]])

evaluate_optimal_pair(P) ==
  LET A == mlp(P)
      B == mlp(A)
      C == env(env(B))
  IN  evaluate_agent_pair(
        [C EXCEPT !.call = [NoCall EXCEPT !.name = "optimal_pair", !.env_ref = TRUE,
                                          !.pair = <<CoupledPlanningAgent, CoupledPlanningAgent>>]])

evaluate_one_optimal_one_random(P) ==
  LET A == mlp(P)
  IN  evaluate_agent_pair(
        [A EXCEPT !.call = [NoCall EXCEPT !.name = "one_optimal_one_random",
                                          !.pair = <<CoupledPlanningAgent, RandomAgent>>]])

\* evaluate_one_optimal_one_greedy_human with "else" in place of "elif h_idx == 1"
greedy_human_else(P, h_idx) ==
  LET A == mlp(P)
      B == mlp(A)
      nm == [NoCall EXCEPT !.name = "one_optimal_one_greedy_human", !.seat = h_idx]
  IN  IF h_idx = 0
      THEN evaluate_agent_pair(
             [B EXCEPT !.call = [nm EXCEPT !.pair = <<GreedyHumanModel, CoupledPlanningAgent>>]])
      ELSE evaluate_agent_pair(
             [B EXCEPT !.call = [nm EXCEPT !.pair = <<CoupledPlanningAgent, GreedyHumanModel>>]])

\* h_idx outside {0, 1} leaves a0 and a1 unassigned: AgentPair(a0, a1) raises
\* UnboundLocalError before self.mlp is read or evaluate_agent_pair is entered.
evaluate_one_optimal_one_greedy_human(P, h_idx) ==
  LET A == mlp(P)
      B == mlp(A)
      nm == [NoCall EXCEPT !.name = "one_optimal_one_greedy_human", !.seat = h_idx]
  IN  IF h_idx = 0
      THEN evaluate_agent_pair(
             [B EXCEPT !.call = [nm EXCEPT !.pair = <<GreedyHumanModel, CoupledPlanningAgent>>]])
      ELSE IF h_idx = 1
      THEN evaluate_agent_pair(
             [B EXCEPT !.call = [nm EXCEPT !.pair = <<CoupledPlanningAgent, GreedyHumanModel>>]])
      ELSE [P EXCEPT !.call = [nm EXCEPT !.err = "UnboundLocalError"]]

\* Seat values a caller may pass.
Seats == {-1, 0, 1, 2}

\* ------------------------------------------------------------ initial states
\* AgentEvaluator.__init__: the three slots start empty.
InitSlots ==
  /\ _mdp = None /\ _env = None /\ _mlp = None
  /\ nextId = 1

\* AgentEvaluator.from_config: ae._env = setup_mdp_env(...); ae._mdp = ae._env.mdp
\* (both objects are built by setup_mdp_env, not by the accessors).
InitFromConfig ==
  /\ _env = 1 /\ _mdp = 2 /\ _mlp = None
  /\ nextId = 3

InitProviderRest ==
  /\ built = <<>>
  /\ planner = [accesses |-> 0, computes |-> 0, writes |-> 0, loads |-> 0]
  /\ returned = [mdp |-> {}, env |-> {}, mlp |-> {}]
  /\ call = NoCall
  /\ calls = 0

\* A planner entry left on disk by an earlier run.
OldEntry == 99

InitProvider ==
  /\ InitSlots \/ InitFromConfig
  /\ force_compute \in BOOLEAN
  /\ cache \in {None, OldEntry}
  /\ InitProviderRest

NoState == [pos |-> -1, order_list |-> <<>>]
NoCmp == [recorded |-> NoState, simulated |-> NoState, at |-> <<0, 0>>]

InitTraj ==
  /\ start_state \in StartStates
  /\ horizon \in 1..MaxLen
  /\ bundle = NoBundle /\ bundle0 = NoBundle
  /\ file = NoBundle /\ file0 = NoBundle /\ edited = FALSE
  /\ op = "-" /\ pc = "idle" /\ idx = 0 /\ t = 0
  /\ sim = NoState /\ cmp = NoCmp
  /\ raised = "" /\ result = "-" /\ runs = 0

InitNoExport == xin = NoBundle /\ xout = [form |-> "-"]

\* ------------------------------------------------- provider and pairing steps
Commit(Q) ==
  /\ _mdp' = Q._mdp /\ _env' = Q._env /\ _mlp' = Q._mlp
  /\ cache' = Q.cache /\ nextId' = Q.nextId /\ built' = Q.built
  /\ planner' = Q.planner /\ returned' = Q.returned /\ call' = Q.call
  /\ calls' = calls + 1
  /\ UNCHANGED force_compute

TrajRest == <<start_state, horizon, bundle0, file, file0, edited, op, pc, idx,
              t, sim, cmp, raised, result, runs>>

AccessMdp ==
  /\ calls < MaxCalls /\ pc = "idle"
  /\ Commit(mdp(Instance))
  /\ UNCHANGED <<tvars, xvars>>

AccessEnv ==
  /\ calls < MaxCalls /\ pc = "idle"
  /\ Commit(env(Instance))
  /\ UNCHANGED <<tvars, xvars>>

AccessMlp ==
  /\ calls < MaxCalls /\ pc = "idle"
  /\ Commit(mlp(Instance))
  /\ UNCHANGED <<tvars, xvars>>

\* An evaluate_* call: the pairing constructor, then (unless it raised) one
\* game of rollouts, whose bundle the caller receives.
Evaluated(Q) ==
  /\ Commit(Q)
  /\ IF Q.call.rolled
     THEN \E acts \in ActChoices(1, horizon) : bundle' = get_rollouts(start_state, acts)
     ELSE bundle' = bundle
  /\ UNCHANGED <<TrajRest, xvars>>

EvaluateHumanModelPair ==
  /\ calls < MaxCalls /\ pc = "idle"
  /\ Evaluated(evaluate_human_model_pair(Instance))

EvaluateOptimalPair ==
  /\ calls < MaxCalls /\ pc = "idle"
  /\ Evaluated(evaluate_optimal_pair(Instance))

EvaluateOneOptimalOneRandom ==
  /\ calls < MaxCalls /\ pc = "idle"
  /\ Evaluated(evaluate_one_optimal_one_random(Instance))

EvaluateOneOptimalOneGreedyHuman ==
  /\ calls < MaxCalls /\ pc = "idle"
  /\ \E h_idx \in Seats :
       Evaluated(evaluate_one_optimal_one_greedy_human(Instance, h_idx))

NextProvider ==
  \/ AccessMdp
  \/ AccessEnv
  \/ AccessMlp
  \/ EvaluateHumanModelPair
  \/ EvaluateOptimalPair
  \/ EvaluateOneOptimalOneRandom
  \/ EvaluateOneOptimalOneGreedyHuman

ProviderInit == InitProvider /\ InitTraj /\ InitNoExport

SpecProvider == ProviderInit /\ [][NextProvider]_vars

\* ------------------------------------------------------ provider claims
Count(q, x) == Cardinality({k \in 1..Len(q) : q[k] = x})

\* C3 (as stated): with force_compute = true, two accesses to the planner give
\* two computations and two writes of the cache entry.
C3_TwoAccessesRecomputeTwice ==
  (force_compute /\ planner.accesses = 2)
    => (planner.computes = 2 /\ planner.writes = 2)

\* C3 (amended): with force_compute = true, the first access to the planner
\* computes it and overwrites the cache entry, whether or not an entry
\* existed; every later access returns the memoized planner, so any number of
\* accesses gives exactly one computation, one write and no read of the cache.
C3_ForcedComputesOnce ==
  (force_compute /\ planner.accesses >= 1)
    => /\ planner.computes = 1 /\ planner.writes = 1 /\ planner.loads = 0
       /\ cache = _mlp /\ cache # OldEntry

C3_Witness ==
  force_compute /\ planner.accesses = 2 /\ planner.computes = 1

\* C4: the world model, the environment and the planner are each constructed
\* at most once, every access to one of them returns the same object, and an
\* environment is constructed only after the world model slot is filled.
C4_SlotsMemoized ==
  /\ \A r \in {"mdp", "env", "mlp"} : Count(built, r) <= 1
  /\ \A r \in {"mdp", "env", "mlp"} : Cardinality(returned[r]) <= 1
  /\ returned.mdp \subseteq {_mdp}
  /\ returned.env \subseteq {_env}
  /\ returned.mlp \subseteq {_mlp}
  /\ \A k \in 1..Len(built) :
       built[k] = "env" => \E j \in 1..(k - 1) : built[j] = "mdp"
  /\ _env # None => _mdp # None

C4_Witness ==
  /\ {built[k] : k \in 1..Len(built)} = {"mdp", "env", "mlp"}
  /\ planner.accesses >= 2
  /\ returned.env # {} /\ returned.mdp # {}
  /\ calls = MaxCalls

\* C10: evaluate_one_optimal_one_greedy_human with a seat outside {0, 1} raises
\* before the pair is bound to the world model and before any rollout; seat 0
\* puts the heuristic agent at position 0 and the planning agent at position
\* 1, seat 1 the other way round.
C10_SeatSelectsPositions ==
  call.name = "one_optimal_one_greedy_human" =>
    /\ call.seat \notin {0, 1} =>
         (call.err # "" /\ ~call.bound /\ ~call.rolled /\ call.pair = NoPair)
    /\ call.seat = 0 =>
         (call.err = "" /\ call.pair = <<GreedyHumanModel, CoupledPlanningAgent>>
            /\ call.bound /\ call.rolled)
    /\ call.seat = 1 =>
         (call.err = "" /\ call.pair = <<CoupledPlanningAgent, GreedyHumanModel>>
            /\ call.bound /\ call.rolled)

C10_Witness ==
  /\ call.name = "one_optimal_one_greedy_human"
  /\ call.seat = 2 /\ call.err = "UnboundLocalError"
  /\ _mlp = None

\* --------------------------------------------------- TrajectoryValidator
\* The three fields check_trajectory reads.
ReadKeys == {"ep_observations", "ep_actions", "ep_rewards"}

\* The first lines of check_trajectory(trajectories, idx): the three lookups,
\* left to right, then assert len(states) == len(actions).  "" when none raises.
check_trajectory_entry(B, i) ==
  IF ~(ReadKeys \subseteq B.keys) THEN "KeyError"
  ELSE IF i > Len(B.ep_actions) \/ i > Len(B.ep_rewards) THEN "IndexError"
  ELSE IF Len(B.ep_observations[i]) # Len(B.ep_actions[i]) THEN "AssertionError"
  ELSE ""

\* The loop body without "assert rewards[i] == reward"
check_step_no_reward(B, i, k) ==
  LET B1 == [B EXCEPT !.ep_observations[i][k].order_list = ORDER_REF]
      curr_state == B1.ep_observations[i][k]
  IN  IF k + 1 <= Len(B.ep_observations[i])
      THEN LET r == MdpStep(curr_state, B.ep_actions[i][k])
               next_state == [r.state EXCEPT !.order_list = ORDER_REF]
               recorded == B1.ep_observations[i][k + 1]
           IN  [bundle |-> B1, sim |-> curr_state, compared |-> TRUE,
                recorded |-> recorded, simulated |-> next_state,
                raised |-> IF ~StateEq(recorded, next_state) THEN "AssertionError"
                           ELSE ""]
      ELSE [bundle |-> B1, sim |-> curr_state, compared |-> FALSE,
            recorded |-> NoState, simulated |-> NoState, raised |-> ""]

\* One pass of "for i in range(len(states))" in check_trajectory, for step k of
\* episode i: curr_state.order_list is overwritten in the bundle itself, the
\* state is installed as the cursor, and if a next recorded state exists the
\* recorded action is stepped, next_state.order_list overwritten, and
\* states[k + 1] (as it stands in the bundle) and rewards[k] are compared.
check_step(B, i, k) ==
  LET B1 == [B EXCEPT !.ep_observations[i][k].order_list = ORDER_REF]
      curr_state == B1.ep_observations[i][k]
  IN  IF k + 1 <= Len(B.ep_observations[i])
      THEN LET r == MdpStep(curr_state, B.ep_actions[i][k])
               next_state == [r.state EXCEPT !.order_list = ORDER_REF]
               recorded == B1.ep_observations[i][k + 1]
           IN  [bundle |-> B1, sim |-> curr_state, compared |-> TRUE,
                recorded |-> recorded, simulated |-> next_state,
                raised |-> IF ~StateEq(recorded, next_state) THEN "AssertionError"
                           ELSE IF k > Len(B.ep_rewards[i]) THEN "IndexError"
                           ELSE IF B.ep_rewards[i][k] # r.reward THEN "AssertionError"
                           ELSE ""]
      ELSE [bundle |-> B1, sim |-> curr_state, compared |-> FALSE,
            recorded |-> NoState, simulated |-> NoState, raised |-> ""]

\* The operation ends by raising exc: nothing is returned.
Raise(exc) ==
  /\ raised' = exc /\ result' = "-"
  /\ pc' = "idle" /\ idx' = 0 /\ t' = 0
  /\ runs' = runs + 1

\* Entering check_trajectories(B): range(len(B["ep_observations"])).
EnterCheck(B) ==
  IF "ep_observations" \notin B.keys
  THEN Raise("KeyError")
  ELSE /\ raised' = "" /\ result' = "-" /\ runs' = runs
       /\ pc' = "episode" /\ idx' = 1 /\ t' = 0

Idle == pc = "idle" /\ runs < MaxRuns

\* check_trajectories(bundle), called by the holder of the bundle
CheckTrajectories ==
  /\ Idle /\ bundle # NoBundle
  /\ op' = "check" /\ bundle0' = bundle /\ file0' = file
  /\ EnterCheck(bundle)
  /\ UNCHANGED <<start_state, horizon, bundle, file, edited, sim, cmp>>
  /\ UNCHANGED <<pvars, xvars>>

\* save_trajectory(bundle, filename): the assert on the key set, then
\* check_trajectories; save_pickle follows in Return.
SaveTrajectory ==
  /\ Idle /\ bundle # NoBundle
  /\ op' = "save" /\ bundle0' = bundle /\ file0' = file
  /\ IF bundle.keys # StandardKeys
     THEN Raise("AssertionError")
     ELSE EnterCheck(bundle)
  /\ UNCHANGED <<start_state, horizon, bundle, file, edited, sim, cmp>>
  /\ UNCHANGED <<pvars, xvars>>

\* load_trajectory(filename): traj = load_pickle(filename), then
\* check_trajectories(traj); "return traj" follows in Return.
LoadTrajectory ==
  /\ Idle /\ file # NoBundle
  /\ op' = "load" /\ bundle' = file /\ bundle0' = file /\ file0' = file
  /\ EnterCheck(file)
  /\ UNCHANGED <<start_state, horizon, file, edited, sim, cmp>>
  /\ UNCHANGED <<pvars, xvars>>

\* check_trajectory(trajectories, idx) up to "simulation_env = self.env.copy()",
\* or the end of check_trajectories' loop when no episode is left.
Episode ==
  /\ pc = "episode"
  /\ IF idx > Len(bundle.ep_observations)
     THEN /\ pc' = "return"
          /\ UNCHANGED <<idx, t, raised, result, runs, pvars>>
     ELSE LET exc == check_trajectory_entry(bundle, idx) IN
          IF exc # ""
          THEN Raise(exc) /\ UNCHANGED pvars
          ELSE /\ LET Q == env(Instance) IN
                    /\ _mdp' = Q._mdp /\ _env' = Q._env /\ nextId' = Q.nextId
                    /\ built' = Q.built /\ returned' = Q.returned
                    /\ UNCHANGED <<_mlp, force_compute, cache, planner, call, calls>>
               /\ IF Len(bundle.ep_observations[idx]) = 0
                  THEN idx' = idx + 1 /\ UNCHANGED <<pc, t>>
                  ELSE pc' = "step" /\ t' = 1 /\ UNCHANGED idx
               /\ UNCHANGED <<raised, result, runs>>
  /\ UNCHANGED <<start_state, horizon, bundle, bundle0, file, file0, edited, op,
                 sim, cmp, xvars>>

\* One iteration of check_trajectory's loop.
Step ==
  /\ pc = "step"
  /\ LET c == check_step(bundle, idx, t) IN
       /\ bundle' = c.bundle
       /\ sim' = c.sim
       /\ cmp' = IF c.compared
                 THEN [recorded |-> c.recorded, simulated |-> c.simulated,
                       at |-> <<idx, t>>]
                 ELSE cmp
       /\ IF c.raised # ""
          THEN Raise(c.raised)
          ELSE /\ IF t = Len(bundle.ep_observations[idx])
                  THEN pc' = "episode" /\ idx' = idx + 1 /\ t' = 0
                  ELSE pc' = "step" /\ t' = t + 1 /\ UNCHANGED idx
               /\ UNCHANGED <<raised, result, runs>>
  /\ UNCHANGED <<start_state, horizon, bundle0, file, file0, edited, op, pvars, xvars>>

\* What follows a check_trajectories that did not raise: nothing more for a
\* direct call, save_pickle(trajectory, filename) in save_trajectory, and
\* "return traj" in load_trajectory.
after_check(o, B, f) ==
  IF o = "save" THEN [file |-> B, result |-> "saved"]
  ELSE IF o = "load" THEN [file |-> f, result |-> "bundle"]
  ELSE [file |-> f, result |-> "ok"]

Return ==
  /\ pc = "return"
  /\ LET a == after_check(op, bundle, file) IN
       file' = a.file /\ result' = a.result
  /\ pc' = "idle" /\ idx' = 0 /\ t' = 0 /\ runs' = runs + 1
  /\ UNCHANGED <<start_state, horizon, bundle, bundle0, file0, edited, op, sim,
                 cmp, raised, pvars, xvars>>

\* ------------------------------------------------- producing the bundles
\* evaluate_agent_pair(agent_pair, num_games): the bundle the caller receives.
EvaluateAgentPair ==
  /\ pc = "idle" /\ bundle = NoBundle /\ calls < MaxCalls
  /\ Commit(evaluate_agent_pair([Instance EXCEPT !.call = [NoCall EXCEPT !.name = "agent_pair"]]))
  /\ \E num_games \in 1..MaxEps :
       \E acts \in ActChoices(num_games, horizon) :
         bundle' = get_rollouts(start_state, acts)
  /\ UNCHANGED <<TrajRest, xvars>>

\* Fields a bundle handed to the harness may lack.
DropKeys == {"ep_dones", "ep_rewards"}

DropLast(q) == SubSeq(q, 1, Len(q) - 1)

\* The holder of a bundle alters it before handing it to the harness: the
\* ways in which a recorded history stops matching the live environment or
\* the standard layout of a bundle.
Altered(B, kind, e, k, key) ==
  CASE kind = "state" -> [B EXCEPT !.ep_observations[e][k].pos = 1 - @]
    [] kind = "reward" -> [B EXCEPT !.ep_rewards[e][k] = 20 - @]
    [] kind = "drop_action" -> [B EXCEPT !.ep_actions[e] = DropLast(@)]
    [] kind = "drop_key" -> [B EXCEPT !.keys = @ \ {key}, ![key] = <<>>]
    [] kind = "extra_key" -> [B EXCEPT !.keys = @ \cup {"layout_name"}]
    [] kind = "drop_return" -> [B EXCEPT !.ep_returns = DropLast(@)]

Alter ==
  /\ pc = "idle" /\ bundle # NoBundle /\ ~edited /\ runs = 0
  /\ \/ \E kind \in {"state", "reward"} :
          \E e \in 1..Len(bundle.ep_observations) :
            \E k \in 1..Len(bundle.ep_observations[e]) :
              bundle' = Altered(bundle, kind, e, k, "")
     \/ \E e \in 1..Len(bundle.ep_observations) :
          bundle' = Altered(bundle, "drop_action", e, 0, "")
     \/ \E key \in DropKeys : bundle' = Altered(bundle, "drop_key", 0, 0, key)
     \/ \E kind \in {"extra_key", "drop_return"} :
          bundle' = Altered(bundle, kind, 0, 0, "")
  /\ edited' = TRUE
  /\ UNCHANGED <<start_state, horizon, bundle0, file, file0, op, pc, idx, t, sim,
                 cmp, raised, result, runs, pvars, xvars>>

\* A pickle that reaches the disk without save_trajectory (save_pickle called
\* directly, or a file from another tool): load_trajectory may be given it.
ForeignFile ==
  /\ pc = "idle" /\ bundle # NoBundle /\ file = NoBundle /\ runs = 0
  /\ file' = bundle
  /\ UNCHANGED <<start_state, horizon, bundle, bundle0, file0, edited, op, pc,
                 idx, t, sim, cmp, raised, result, runs, pvars, xvars>>

\* ----------------------------------------------------------- specification
Init ==
  /\ InitSlots /\ force_compute = FALSE /\ cache = None /\ InitProviderRest
  /\ InitTraj
  /\ InitNoExport

Next ==
  \/ EvaluateAgentPair
  \/ Alter
  \/ ForeignFile
  \/ CheckTrajectories
  \/ SaveTrajectory
  \/ LoadTrajectory
  \/ Episode
  \/ Step
  \/ Return

Spec == Init /\ [][Next]_vars

\* ---------------------------------------------------- trajectory claims
\* The pending-order-queue normalization of one state.
Normalized(s) == [s EXCEPT !.order_list = ORDER_REF]

Episodes(B) == 1..Len(B.ep_observations)

\* The three fields read by the validator are present, with an entry for
\* every recorded episode.
Readable(B) ==
  /\ ReadKeys \subseteq B.keys
  /\ Len(B.ep_actions) >= Len(B.ep_observations)
  /\ Len(B.ep_rewards) >= Len(B.ep_observations)

LengthsAgree(B) ==
  \A i \in Episodes(B) : Len(B.ep_observations[i]) = Len(B.ep_actions[i])

\* Some recorded step does not replay: stepping the normalized state k with
\* the recorded action gives a next state that differs (order queues
\* normalized on both sides) from recorded state k + 1, or another reward.
ReplayMismatch(B) ==
  \E i \in Episodes(B) :
    \E k \in 1..(Len(B.ep_observations[i]) - 1) :
      /\ k <= Len(B.ep_actions[i])
      /\ LET r == MdpStep(Normalized(B.ep_observations[i][k]), B.ep_actions[i][k])
         IN  \/ Normalized(r.state) # Normalized(B.ep_observations[i][k + 1])
             \/ /\ k <= Len(B.ep_rewards[i])
                /\ r.reward # B.ep_rewards[i][k]

\* C1: check_trajectories raises if some recorded step (i, t) with a recorded
\* successor does not replay (next state or reward differs), and returns
\* without raising if no such step exists and every episode has as many
\* actions as states.
C1_RaisesIffReplayMismatch ==
  (op = "check" /\ pc = "idle" /\ Readable(bundle0)) =>
    /\ ReplayMismatch(bundle0) => raised # ""
    /\ (~ReplayMismatch(bundle0) /\ LengthsAgree(bundle0)) => raised = ""

\* C2: at every state comparison of check_trajectory both operands, the
\* simulated next_state and the recorded states[t + 1], carry the reference
\* order queue.
C2_BothSidesNormalized ==
  cmp.at # <<0, 0>> =>
    /\ cmp.simulated.order_list = ORDER_REF
    /\ cmp.recorded.order_list = ORDER_REF

\* C5: when check_trajectories or save_trajectory has returned or raised, the
\* bundle passed in equals its value before the call (the exporters are pure
\* functions of their argument in this model).
C5_BundleUnchanged ==
  (pc = "idle" /\ op \in {"check", "save"}) => bundle = bundle0

\* What a pass of check_trajectories over bundle B tests, stated on B as it
\* was handed in: the fields read exist, every episode has as many actions as
\* states, and every step with a recorded successor steps to that successor
\* (as recorded) with the recorded reward.
PassesReplay(B) ==
  /\ Readable(B)
  /\ \A i \in Episodes(B) :
       /\ Len(B.ep_observations[i]) = Len(B.ep_actions[i])
       /\ \A k \in 1..(Len(B.ep_observations[i]) - 1) :
            LET r == MdpStep(Normalized(B.ep_observations[i][k]), B.ep_actions[i][k])
            IN  /\ B.ep_observations[i][k + 1] = Normalized(r.state)
                /\ k <= Len(B.ep_rewards[i])
                /\ B.ep_rewards[i][k] = r.reward

\* C6: save_trajectory writes the file only after the key set was found to be
\* the six standard fields and then check_trajectories passed; when either
\* fails the error reaches the caller and the file is left as it was; and
\* load_trajectory returns the bundle only after check_trajectories passed.
C6_WriteAndReturnOnlyAfterChecks ==
  /\ (op = "save" /\ pc = "idle") =>
       /\ result = "saved" <=> (bundle0.keys = StandardKeys /\ PassesReplay(bundle0))
       /\ result = "saved" => (raised = "" /\ file = bundle)
       /\ result # "saved" => (raised # "" /\ file = file0)
       /\ bundle0.keys # StandardKeys => (raised = "AssertionError" /\ bundle = bundle0)
  /\ (op = "save" /\ pc # "idle") =>
       (file = file0 /\ bundle0.keys = StandardKeys)
  /\ (op = "load" /\ pc = "idle") =>
       /\ result = "bundle" <=> PassesReplay(bundle0)
       /\ result = "bundle" => raised = ""
       /\ result # "bundle" => (raised # "" /\ result = "-")

C6_Witness ==
  /\ op = "save" /\ pc = "idle" /\ result = "saved"
  /\ file = bundle /\ file0 = NoBundle
  /\ Len(bundle0.ep_observations) = 2

\* The structure of a standard bundle: exactly the six fields, all of the
\* same episode count, and as many actions as states in every episode.
Structural(B) ==
  /\ B.keys = StandardKeys
  /\ \A f \in StandardKeys : Len(B[f]) = Len(B.ep_observations)
  /\ LengthsAgree(B)

\* C7: load_trajectory never returns a bundle with a structural mismatch.
C7_LoadRejectsStructuralMismatch ==
  (op = "load" /\ pc = "idle" /\ ~Structural(bundle0)) => result # "bundle"

\* ----------------------------------------------------- TrajectoryExporter
RECURSIVE Concatenate(_)
\* np.concatenate over the episodes of one field
Concatenate(eps) ==
  IF eps = <<>> THEN <<>> ELSE Head(eps) \o Concatenate(Tail(eps))

\* np.zeros(n)
Zeros(n) == [k \in 1..n |-> 0]

\* ndarray.astype(np.bool)
AsBool(v) == [k \in DOMAIN v |-> v[k] # 0]

\* Episode-start markers taken from the done flags of the step before
starts_from_dones(dones) ==
  [k \in 1..Len(dones) |-> IF k = 1 THEN TRUE ELSE dones[k - 1]]

\* eps_starts for one episode: zeros(len(traj)), ep_starts[0] = 1, astype(bool)
ep_starts(dones) == AsBool([Zeros(Len(dones)) EXCEPT ![1] = 1])

\* save_traj_in_baselines_format: the four arrays handed to np.savez
save_traj_in_baselines_format(B) ==
  [form |-> "baselines", raised |-> "",
   obs |-> B.ep_observations, acs |-> B.ep_actions,
   ep_lens |-> B.ep_lengths, ep_rets |-> B.ep_returns]

\* save_traj_in_stable_baselines_format: ep_starts[0] = 1 raises IndexError on
\* an episode without steps
save_traj_in_stable_baselines_format(B) ==
  IF \E e \in 1..Len(B.ep_dones) : Len(B.ep_dones[e]) = 0
  THEN [form |-> "stable_baselines", raised |-> "IndexError"]
  ELSE [form |-> "stable_baselines", raised |-> "",
        actions |-> Concatenate(B.ep_actions),
        obs |-> Concatenate(B.ep_observations),
        rewards |-> Concatenate(B.ep_rewards),
        episode_starts |->
          Concatenate([e \in 1..Len(B.ep_dones) |-> ep_starts(B.ep_dones[e])]),
        episode_returns |-> B.ep_returns]

\* str.upper() on the action tokens
Upper(a) ==
  CASE a = "interact" -> "INTERACT"
    [] a = "move" -> "MOVE"
    [] a = "None" -> "NONE"
    [] OTHER -> a

\* a_modified = [a if a != Action.INTERACT else a.upper() for a in a_t]
a_modified(a_t) ==
  [p \in 1..Len(a_t) |-> IF a_t[p] # INTERACT THEN a_t[p] ELSE Upper(a_t[p])]

RECURSIVE viz_traj_unfiltered(_)
\* The loop over trajectory['ep_actions'][0] without the "is not None" test
viz_traj_unfiltered(actions) ==
  IF actions = <<>> THEN <<>>
  ELSE <<a_modified(Head(actions))>> \o viz_traj_unfiltered(Tail(actions))

RECURSIVE viz_traj(_)
\* The loop over trajectory['ep_actions'][0]: a step is appended when no
\* agent's action is None.
viz_traj(actions) ==
  IF actions = <<>> THEN <<>>
  ELSE LET a_t == Head(actions)
       IN  (IF \A p \in 1..Len(a_t) : a_t[p] # UNDEF
            THEN <<a_modified(a_t)>> ELSE <<>>)
           \o viz_traj(Tail(actions))

\* self.mdp.terrain_mtx and self.mdp.start_player_positions of the layout
terrain_mtx == << <<"X", "P", "X">>, <<"O", " ", "X">> >>
start_player_positions == << <<1, 0>>, <<2, 1>> >>

\* str(i + 1) for the seats of a pair
SeatChar(i) == IF i = 0 THEN "1" ELSE "2"

RECURSIVE annotate(_, _)
\* for i, start_pos in enumerate(...): row_string[:x] + str(i + 1) + row_string[x+1:]
\* applied for the seats i-1 down to 0 in source order (n = seats still to do)
annotate(grid, n) ==
  IF n = 0 THEN grid
  ELSE LET g == annotate(grid, n - 1)
           x == start_player_positions[n][1]
           y == start_player_positions[n][2]
           row == g[y + 1]
       IN  [g EXCEPT ![y + 1] =
              SubSeq(row, 1, x) \o <<SeatChar(n - 1)>> \o SubSeq(row, x + 2, Len(row))]

\* save_action_traj_for_viz: the document handed to json.dump
save_action_traj_for_viz(B) ==
  [form |-> "viz", raised |-> "",
   traj |-> viz_traj(B.ep_actions[1]),
   mdp_grid |-> annotate(terrain_mtx, Len(start_player_positions))]

\* ---------------------------------------------------- exporter inputs
SeqsUpTo(S, n) == UNION {[1..l -> S] : l \in 0..n}

\* Joint actions as they may stand in ep_actions, an undefined action included.
VizActions ==
  {<<MOVE, INTERACT>>, <<INTERACT, UNDEF>>, <<MOVE, MOVE>>}

\* A bundle of the shape get_rollouts gives (all fields aligned), with the
\* given actions and done flags.
AlignedBundle(acts, dones) ==
  LET E == 1..Len(acts) IN
  [keys |-> StandardKeys,
   ep_actions |-> acts,
   ep_observations |-> [e \in E |-> [k \in 1..Len(acts[e]) |-> [pos |-> 1, order_list |-> ORDER_REF]]],
   ep_rewards |-> [e \in E |-> [k \in 1..Len(acts[e]) |-> 0]],
   ep_dones |-> dones,
   ep_returns |-> [e \in E |-> 0],
   ep_lengths |-> [e \in E |-> Len(acts[e])]]

\* xin is a bundle with any combination of done flags, or a bundle with any
\* combination of joint actions.
ExportInput ==
  \E n \in 1..ExpEps :
    \/ \E d \in [1..n -> SeqsUpTo(BOOLEAN, ExpLen)] :
         xin = AlignedBundle([e \in 1..n |-> [k \in 1..Len(d[e]) |-> <<MOVE, MOVE>>]], d)
    \/ \E a \in [1..n -> SeqsUpTo(VizActions, ExpLen)] :
         xin = AlignedBundle(a, [e \in 1..n |-> [k \in 1..Len(a[e]) |-> k = Len(a[e])]])

ExportInit ==
  /\ InitSlots /\ force_compute = FALSE /\ cache = None /\ InitProviderRest
  /\ start_state = [pos |-> 1, order_list |-> ORDER_REF] /\ horizon = 1
  /\ bundle = NoBundle /\ bundle0 = NoBundle
  /\ file = NoBundle /\ file0 = NoBundle /\ edited = FALSE
  /\ op = "-" /\ pc = "idle" /\ idx = 0 /\ t = 0
  /\ sim = NoState /\ cmp = NoCmp
  /\ raised = "" /\ result = "-" /\ runs = 0
  /\ ExportInput
  /\ xout = [form |-> "-"]

SaveTrajInBaselinesFormat ==
  /\ xout.form = "-"
  /\ xout' = save_traj_in_baselines_format(xin)
  /\ UNCHANGED <<xin, pvars, tvars>>

SaveTrajInStableBaselinesFormat ==
  /\ xout.form = "-"
  /\ xout' = save_traj_in_stable_baselines_format(xin)
  /\ UNCHANGED <<xin, pvars, tvars>>

\* save_action_traj_for_viz reads self.mdp for the grid.
SaveActionTrajForViz ==
  /\ xout.form = "-"
  /\ xout' = save_action_traj_for_viz(xin)
  /\ LET Q == mdp(Instance) IN
       /\ _mdp' = Q._mdp /\ nextId' = Q.nextId /\ built' = Q.built
       /\ returned' = Q.returned
  /\ UNCHANGED <<xin, _env, _mlp, force_compute, cache, planner, call, calls, tvars>>

NextExport ==
  \/ SaveTrajInBaselinesFormat
  \/ SaveTrajInStableBaselinesFormat
  \/ SaveActionTrajForViz

SpecExport == ExportInit /\ [][NextExport]_vars

\* -------------------------------------------------------- exporter claims
\* Flat index before the first step of episode e: the steps of the episodes
\* that precede it.
Offset(B, e) == SumSeq([j \in 1..(e - 1) |-> Len(B.ep_dones[j])])

\* C8: in the flat timeline export the marker of every episode is true at the
\* episode's first step and false at its other steps whatever the done flags
\* are, the episodes follow each other in bundle order, and the markers are
\* as many as the concatenated actions, observations and rewards.
C8_EpisodeStartMarkers ==
  (xout.form = "stable_baselines" /\ xout.raised = "") =>
    /\ Len(xout.episode_starts) = Len(xout.actions)
    /\ Len(xout.episode_starts) = Len(xout.obs)
    /\ Len(xout.episode_starts) = Len(xout.rewards)
    /\ Len(xout.episode_starts) = SumSeq(xin.ep_lengths)
    /\ \A e \in 1..Len(xin.ep_dones) :
         \A k \in 1..Len(xin.ep_dones[e]) :
           /\ xout.episode_starts[Offset(xin, e) + k] = (k = 1)
           /\ xout.actions[Offset(xin, e) + k] = xin.ep_actions[e][k]
           /\ xout.obs[Offset(xin, e) + k] = xin.ep_observations[e][k]
           /\ xout.rewards[Offset(xin, e) + k] = xin.ep_rewards[e][k]

\* Two episodes of two steps, with a done flag set before an episode's end.
C8_Witness ==
  /\ xout.form = "stable_baselines" /\ xout.raised = ""
  /\ Len(xin.ep_dones) = 2
  /\ Len(xin.ep_dones[1]) = 2 /\ Len(xin.ep_dones[2]) = 2
  /\ xin.ep_dones[1][1] = TRUE /\ xin.ep_dones[2][1] = TRUE

\* Steps of episode 0 in which every agent's action is defined.
Kept(B) ==
  {k \in 1..Len(B.ep_actions[1]) :
     \A p \in 1..Len(B.ep_actions[1][k]) : B.ep_actions[1][k][p] # UNDEF}

\* C9: traj holds exactly the steps of episode 0 in which every agent's
\* action is defined, in recorded order, each with the interact token in
\* upper case and every other action as recorded.
C9_VizTraj ==
  xout.form = "viz" =>
    /\ Len(xout.traj) = Cardinality(Kept(xin))
    /\ \A k \in Kept(xin) :
         LET n == Cardinality({j \in Kept(xin) : j <= k})
             a_t == xin.ep_actions[1][k]
         IN  /\ Len(xout.traj[n]) = Len(a_t)
             /\ \A p \in 1..Len(a_t) :
                  xout.traj[n][p] = IF a_t[p] = "interact" THEN "INTERACT" ELSE a_t[p]

\* Episode 0 has a step with an undefined action followed by a step with an
\* interact, and a second episode exists.
C9_Witness ==
  /\ xout.form = "viz"
  /\ Len(xin.ep_actions) = 2
  /\ Len(xin.ep_actions[1]) = 2 /\ Len(xin.ep_actions[2]) >= 1
  /\ xin.ep_actions[1][1] = <<INTERACT, UNDEF>>
  /\ xin.ep_actions[1][2] = <<MOVE, INTERACT>>
  /\ xout.traj = << <<MOVE, "INTERACT">> >>

====
